---------------------------- MODULE Spec2Model ----------------------------
(***************************************************************************)
(* A model of mne/cov.py: the noise covariance codec (read_cov, write_cov, *)
(* write_cov_file, Covariance.load), the streaming estimator               *)
(* (Covariance.estimate_from_raw) and the whitener (Covariance.whitener).  *)
(*                                                                         *)
(* Numbers are integers: a float of the program is modelled by an integer, *)
(* so x + x halved is x exactly, as it is in binary floating point.        *)
(* An optional value (Python's None or a value) is a sequence of length    *)
(* at most one.                                                            *)
(***************************************************************************)
EXTENDS Integers, Sequences, FiniteSets, TLC

VARIABLES
    \* write_cov / read_cov on one record
    cov,        \* the dict handed to write_cov
    block,      \* the entries write_cov emitted
    container,  \* the covariance blocks of the file tree, in stored order
    cov_kind,   \* the kind id read_cov is asked for
    decoded,    \* what read_cov returned or raised
    cpc         \* "start", "encoded", "stored", "decoded"

codecVars == <<cov, block, container, cov_kind, decoded, cpc>>

VARIABLES
    \* Covariance.load, Covariance.save and write_cov_file on the file fname
    disk,       \* the file: whether it exists, its blocks, an unfinished block
    self,       \* the Covariance object: kind and _cov
    fid,        \* the handle of the last call: "none", "open", "closed"
    call        \* the last call and how it ended

fileVars == <<disk, self, fid, call>>

VARIABLES
    \* Covariance.estimate_from_raw, run twice over one recording
    raw,        \* the recording: first_samp, last_samp, sfreq, the samples
    ekind,      \* self.kind of the estimating objects
    picks,      \* the channel selection
    est         \* per run: position in the call and its locals

estVars == <<raw, ekind, picks, est>>

VARIABLES
    \* Covariance.whitener
    wself,      \* the Covariance object: kind, ch_names, dimensions of data
    info,       \* the measurement info: ch_names, bads, projection components
    pca,        \* the pca argument
    wres        \* how the call ended and what it returned

whiteVars == <<wself, info, pca, wres>>

vars == <<codecVars, fileVars, estVars, whiteVars>>

---------------------------------------------------------------------------
(* Bounds *)

MaxDim == 2        \* covariance dimension 1..MaxDim
MaxVal == 1        \* matrix entries and samples range over 0..MaxVal
MaxBlocks == 2     \* covariance blocks stored in one file tree
MaxSamples == 3    \* samples in a recording
MaxHalves == 4     \* quantum_sec ranges over 1/2 .. MaxHalves/2 seconds

---------------------------------------------------------------------------
(* Optional values *)

None == <<>>
Some(x) == <<x>>
IsNone(o) == Len(o) = 0
Get(o) == o[1]

---------------------------------------------------------------------------
(* Covariance._kind_to_id *)

KindNames == {"full", "sparse", "diagonal"}

kind_to_id(kind) ==
    CASE kind = "full" -> 1
      [] kind = "sparse" -> 2
      [] kind = "diagonal" -> 3

KindIds == {kind_to_id(k) : k \in KindNames}

---------------------------------------------------------------------------
(* Channel names are strings, here sequences of characters.  The file      *)
(* stores a name list as one string with ":" between the names.            *)

ChNames == {<<"A">>, <<"B">>, <<"A", "B">>}

RECURSIVE JoinNames(_)
JoinNames(names) ==
    IF Len(names) = 0 THEN <<>>
    ELSE IF Len(names) = 1 THEN names[1]
    ELSE names[1] \o <<":">> \o JoinNames(Tail(names))

\* str.split(':') : never empty, ''.split(':') is ['']
RECURSIVE SplitNames(_)
SplitNames(s) ==
    IF \A i \in 1..Len(s) : s[i] # ":" THEN <<s>>
    ELSE LET c == CHOOSE i \in 1..Len(s) :
                      s[i] = ":" /\ \A j \in 1..(i-1) : s[j] # ":"
         IN <<SubSeq(s, 1, c - 1)>> \o SplitNames(SubSeq(s, c + 1, Len(s)))

---------------------------------------------------------------------------
(* Packing of the lower triangle *)

\* np.tril(np.ones((dim, dim))) > 0
TrilMask(dim) == {p \in (1..dim) \X (1..dim) : p[2] <= p[1]}

\* Position of p among the True cells of mask, in row-major scan order
ScanIndex(mask, p) ==
    Cardinality({q \in mask : q[1] < p[1] \/ (q[1] = p[1] /\ q[2] <= p[2])})

\* cov['data'][mask].ravel()
PackLower(dim, data) ==
    LET mask == TrilMask(dim)
    IN [k \in 1..Cardinality(mask) |->
          LET p == CHOOSE q \in mask : ScanIndex(mask, q) = k
          IN data[p[1]][p[2]]]

\* data[np.tril(np.ones((dim, dim))) > 0] = vals, on np.zeros((dim, dim))
FillLower(dim, vals) ==
    LET mask == TrilMask(dim)
    IN [i \in 1..dim |-> [j \in 1..dim |->
          IF <<i, j>> \in mask THEN vals[ScanIndex(mask, <<i, j>>)] ELSE 0]]

\* data + data.T
AddTranspose(dim, m) ==
    [i \in 1..dim |-> [j \in 1..dim |-> m[i][j] + m[j][i]]]

HalveDiagonal_Skipped(dim, m) == m

\* data.flat[::dim+1] /= 2.0
HalveDiagonal(dim, m) ==
    [i \in 1..dim |-> [j \in 1..dim |->
        IF ((i - 1) * dim + (j - 1)) % (dim + 1) = 0
        THEN m[i][j] \div 2 ELSE m[i][j]]]

---------------------------------------------------------------------------
(* Entries of a covariance block.  An entry is a tag and its value.        *)

Entry(t, v) == [tag |-> t, val |-> v]

\* find_tag: the first entry of the block with the tag, or None
find_tag(blk, t) ==
    IF \E i \in 1..Len(blk) : blk[i].tag = t
    THEN Some(blk[CHOOSE i \in 1..Len(blk) :
                    blk[i].tag = t /\ \A j \in 1..(i-1) : blk[j].tag # t].val)
    ELSE None

---------------------------------------------------------------------------
(* write_cov *)

HasTag(blk, t) == \E i \in 1..Len(blk) : blk[i].tag = t

HasBlock(blk, b) ==
    \E i \in 1..Len(blk) : blk[i].tag = "start_block" /\ blk[i].val = b

\* A dense double array as write_double stores it
Dense(v) == [sparse |-> FALSE, vals |-> v]

\* write_name_list: the names joined by ":" in one string entry
write_name_list(t, names) == <<Entry(t, JoinNames(names))>>

\* write_proj: the projection descriptors, opaque here
write_proj(projs) == <<Entry("FIFFB_PROJ", projs)>>

write_nfree(c) ==
    IF c.nfree > 0 THEN <<Entry("FIFF_MNE_COV_NFREE", c.nfree)>> ELSE <<>>

write_names(c) ==
    IF ~IsNone(c.names)
    THEN write_name_list("FIFF_MNE_ROW_NAMES", Get(c.names)) ELSE <<>>

write_data(c) ==
    IF c.diag
    THEN <<Entry("FIFF_MNE_COV_DIAG", Dense(c.data))>>
    ELSE <<Entry("FIFF_MNE_COV", Dense(PackLower(c.dim, c.data)))>>

write_eig(c) ==
    IF ~IsNone(c.eig) /\ ~IsNone(c.eigvec)
    THEN <<Entry("FIFF_MNE_COV_EIGENVECTORS", Get(c.eigvec)),
           Entry("FIFF_MNE_COV_EIGENVALUES", Get(c.eig))>>
    ELSE <<>>

write_bads(c) ==
    IF ~IsNone(c.bads)
    THEN <<Entry("start_block", "FIFFB_MNE_BAD_CHANNELS")>>
         \o write_name_list("FIFF_MNE_CH_NAME_LIST", Get(c.bads))
         \o <<Entry("end_block", "FIFFB_MNE_BAD_CHANNELS")>>
    ELSE <<>>

write_cov(c) ==
    <<Entry("start_block", "FIFFB_MNE_COV")>>
    \o <<Entry("FIFF_MNE_COV_KIND", c.kind), Entry("FIFF_MNE_COV_DIM", c.dim)>>
    \o write_nfree(c)
    \o write_names(c)
    \o write_data(c)
    \o write_eig(c)
    \o write_proj(c.projs)
    \o write_bads(c)
    \o <<Entry("end_block", "FIFFB_MNE_COV")>>

---------------------------------------------------------------------------
(* read_cov *)

Raised(msg) == [err |-> msg, cov |-> None]
Returned(c) == [err |-> "", cov |-> Some(c)]

NoCovFound == "No covariance matrices found"
DimNotFound == "Covariance matrix dimension not found"
NamesMismatch == "Number of names does not match covariance matrix dimension"
NoDataFound == "No covariance matrix data found"
DesiredNotFound == "Did not find the desired covariance matrix"

\* read_proj: the projection descriptors of the block, [] when there are none
read_proj(this) ==
    IF HasTag(this, "FIFFB_PROJ") THEN Get(find_tag(this, "FIFFB_PROJ")) ELSE <<>>

\* _read_bad_channels: the names of the nested bad-channel block, [] without one
read_bad_channels(this) ==
    IF HasTag(this, "FIFF_MNE_CH_NAME_LIST")
    THEN SplitNames(Get(find_tag(this, "FIFF_MNE_CH_NAME_LIST"))) ELSE <<>>

\* tag is not None and tag.data == cov_kind
KindMatches(blk, k) ==
    LET tag == find_tag(blk, "FIFF_MNE_COV_KIND")
    IN ~IsNone(tag) /\ Get(tag) = k

\* the full case: the lower triangle is stored
Rebuild(dim, vals) == HalveDiagonal(dim, AddTranspose(dim, FillLower(dim, vals)))

\* the body of the loop for the block that matched
read_block(this, k) ==
    LET dimtag == find_tag(this, "FIFF_MNE_COV_DIM")
        nfreetag == find_tag(this, "FIFF_MNE_COV_NFREE")
        namestag == find_tag(this, "FIFF_MNE_ROW_NAMES")
        covtag == find_tag(this, "FIFF_MNE_COV")
        diagtag == find_tag(this, "FIFF_MNE_COV_DIAG")
        tag1 == find_tag(this, "FIFF_MNE_COV_EIGENVALUES")
        tag2 == find_tag(this, "FIFF_MNE_COV_EIGENVECTORS")
    IN IF IsNone(dimtag) THEN Raised(DimNotFound)
       ELSE LET dim == Get(dimtag)
                nfree == IF IsNone(nfreetag) THEN -1 ELSE Get(nfreetag)
                names == IF IsNone(namestag) THEN <<>>
                         ELSE SplitNames(Get(namestag))
                both == ~IsNone(tag1) /\ ~IsNone(tag2)
            IN IF ~IsNone(namestag) /\ Len(names) # dim THEN Raised(NamesMismatch)
               ELSE IF IsNone(covtag) /\ IsNone(diagtag) THEN Raised(NoDataFound)
               ELSE Returned(
                      [kind |-> k,
                       diag |-> IsNone(covtag),
                       dim |-> dim,
                       names |-> Some(names),
                       data |-> IF IsNone(covtag) THEN Get(diagtag).vals
                                ELSE IF ~Get(covtag).sparse
                                     THEN Rebuild(dim, Get(covtag).vals)
                                     ELSE Get(covtag).vals,
                       projs |-> read_proj(this),
                       bads |-> Some(read_bad_channels(this)),
                       nfree |-> nfree,
                       eig |-> IF both THEN Some(Get(tag1)) ELSE None,
                       eigvec |-> IF both THEN Some(Get(tag2)) ELSE None])

Matching(covs, k) == {p \in 1..Len(covs) : KindMatches(covs[p], k)}

SelectMatch_Last(covs, k) ==
    CHOOSE p \in Matching(covs, k) : \A q \in Matching(covs, k) : q <= p

\* for p in range(len(covs)): the first p whose kind tag matches
SelectMatch(covs, k) ==
    CHOOSE p \in Matching(covs, k) : \A q \in Matching(covs, k) : p <= q

read_cov(covs, k) ==
    IF Len(covs) = 0 THEN Raised(NoCovFound)
    ELSE IF Matching(covs, k) = {} THEN Raised(DesiredNotFound)
    ELSE read_block(covs[SelectMatch(covs, k)], k)

---------------------------------------------------------------------------
(* The records handed to write_cov *)

Vals == 0..MaxVal
Dims == 1..MaxDim
NFreeVals == {-1, 0, 1, 2}

NameLists(n) ==
    {l \in [1..n -> ChNames] : \A i, j \in 1..n : l[i] = l[j] => i = j}

Vectors(n) == [1..n -> Vals]

\* the symmetric matrix whose lower triangle, scanned row by row, is v
SymmetricOf(dim, v) ==
    [i \in 1..dim |-> [j \in 1..dim |->
        v[ScanIndex(TrilMask(dim), IF j <= i THEN <<i, j>> ELSE <<j, i>>)]]]

NameOptions(d) == {None, Some(<<>>)} \cup {Some(l) : l \in NameLists(d)}

\* a record whose data is the vector of variances
DiagRecord(k, d, n, f, v) ==
    [kind |-> k, diag |-> TRUE, dim |-> d, names |-> n, data |-> v,
     projs |-> <<>>, bads |-> None, nfree |-> f, eig |-> None, eigvec |-> None]

\* a record whose data is the symmetric matrix with lower triangle v
FullRecord(k, d, n, f, v) ==
    [kind |-> k, diag |-> FALSE, dim |-> d, names |-> n,
     data |-> SymmetricOf(d, v),
     projs |-> <<>>, bads |-> None, nfree |-> f, eig |-> None, eigvec |-> None]

\* a record of dimension 1 with optional fields
FieldRecord(k, n, f, b, e, ev) ==
    [kind |-> k, diag |-> TRUE, dim |-> 1, names |-> n, data |-> <<1>>,
     projs |-> <<>>, bads |-> b, nfree |-> f, eig |-> e, eigvec |-> ev]

NameFieldOptions == {None, Some(<<>>), Some(<< <<"A">> >>)}
BadsOptions == {None, Some(<<>>), Some(<< <<"B">> >>)}
EigOptions == {None, Some(<<1>>)}
EigvecOptions == {None, Some(<< <<1>> >>)}

NoRecord == [kind |-> 0]

\* the file fname
NoFile == [exists |-> FALSE, blocks |-> <<>>, partial |-> <<>>]
FileOf(blocks) == [exists |-> TRUE, blocks |-> blocks, partial |-> <<>>]

NoCall == [op |-> "none", err |-> "", created |-> FALSE, written |-> 0]
NoSelf == [kind |-> "full", _cov |-> None]

NoRaw == [first_samp |-> 0, last_samp |-> -1, sfreq |-> 1, samples |-> <<>>]
IdleEst == <<>>

NoInfo == [ch_names |-> <<>>, bads |-> {}, ncomp |-> 0]
NoObject == [kind |-> "full", ch_names |-> <<>>, ndim |-> 2]
NoWhitener ==
    [status |-> "idle", err |-> "", W |-> [nrows |-> 0, ncols |-> 0, a |-> <<>>],
     names |-> <<>>, pca |-> FALSE, rank_meg |-> <<>>, rank_eeg |-> <<>>]
OtherIdle ==
    /\ wself = NoObject /\ info = NoInfo /\ pca = TRUE /\ wres = NoWhitener

---------------------------------------------------------------------------
(* The covariance blocks a stored file tree may hold *)

StoredKindTags == {None, Some(1), Some(3)}
NamesAB == Some(<<"A", ":", "B">>)
NamesA == Some(<<"A">>)

\* dimension tag, name tag and payload of the blocks: well formed ones, and
\* ones without a dimension, without data or with one name for dimension 2
StoredShapes ==
    {<<Some(2), NamesAB, "diag">>, <<Some(2), NamesAB, "full">>,
     <<Some(2), NamesAB, "sparse">>, <<Some(2), None, "diag">>,
     <<Some(2), None, "full">>,
     <<None, NamesAB, "diag">>, <<None, None, "none">>,
     <<Some(2), NamesA, "diag">>, <<Some(2), NamesA, "full">>,
     <<Some(2), NamesA, "none">>,
     <<Some(2), NamesAB, "none">>, <<Some(2), None, "none">>}

StoredBlock(k, d, n, pl) ==
    <<Entry("start_block", "FIFFB_MNE_COV")>>
    \o (IF IsNone(k) THEN <<>> ELSE <<Entry("FIFF_MNE_COV_KIND", Get(k))>>)
    \o (IF IsNone(d) THEN <<>> ELSE <<Entry("FIFF_MNE_COV_DIM", Get(d))>>)
    \o (IF IsNone(n) THEN <<>> ELSE <<Entry("FIFF_MNE_ROW_NAMES", Get(n))>>)
    \o (CASE pl = "none" -> <<>>
          [] pl = "diag" -> <<Entry("FIFF_MNE_COV_DIAG", Dense(<<1, 2>>))>>
          [] pl = "full" -> <<Entry("FIFF_MNE_COV", Dense(<<1, 0, 2>>))>>
          [] pl = "sparse" ->
               <<Entry("FIFF_MNE_COV",
                       [sparse |-> TRUE, vals |-> <<<<1, 0>>, <<0, 2>>>>])>>)
    \o <<Entry("end_block", "FIFFB_MNE_COV")>>

StoredBlocks ==
    {StoredBlock(k, sh[1], sh[2], sh[3]) : k \in StoredKindTags,
                                          sh \in StoredShapes}

---------------------------------------------------------------------------
(* write_cov then read_cov on one record *)

InitCodec ==
    /\ \/ \E k \in KindIds, d \in Dims, f \in NFreeVals :
            \E n \in NameOptions(d) :
              \/ \E v \in Vectors(d) : cov = DiagRecord(k, d, n, f, v)
              \/ \E v \in Vectors(Cardinality(TrilMask(d))) :
                    cov = FullRecord(k, d, n, f, v)
       \/ \E k \in KindIds, f \in NFreeVals, n \in NameFieldOptions,
             b \in BadsOptions, e \in EigOptions, ev \in EigvecOptions :
            cov = FieldRecord(k, n, f, b, e, ev)
    /\ block = <<>>
    /\ container = <<>>
    /\ cov_kind = 0
    /\ decoded = Raised("")
    /\ cpc = "start"
    /\ disk = NoFile /\ self = NoSelf /\ fid = "none" /\ call = NoCall
    /\ raw = NoRaw /\ ekind = "full" /\ picks = <<>> /\ est = IdleEst
    /\ OtherIdle

\* write_cov(fid, cov)
Encode ==
    /\ cpc = "start"
    /\ block' = write_cov(cov)
    /\ cpc' = "encoded"
    /\ UNCHANGED <<cov, container, cov_kind, decoded, fileVars, estVars, whiteVars>>

\* read_cov(fid, tree, cov['kind']) on the tree that holds the written block
Decode ==
    /\ cpc = "encoded"
    /\ container' = <<block>>
    /\ cov_kind' = cov.kind
    /\ decoded' = read_cov(container', cov_kind')
    /\ cpc' = "decoded"
    /\ UNCHANGED <<cov, block, fileVars, estVars, whiteVars>>

NextCodec == Encode \/ Decode

SpecCodec == InitCodec /\ [][NextCodec]_vars

---------------------------------------------------------------------------
(* read_cov on a stored file tree *)

InitRead ==
    /\ cov = NoRecord
    /\ block = <<>>
    /\ \E n \in 0..MaxBlocks : container \in [1..n -> StoredBlocks]
    /\ cov_kind \in KindIds
    /\ decoded = Raised("")
    /\ cpc = "stored"
    /\ disk = NoFile /\ self = NoSelf /\ fid = "none" /\ call = NoCall
    /\ raw = NoRaw /\ ekind = "full" /\ picks = <<>> /\ est = IdleEst
    /\ OtherIdle

\* read_cov(fid, tree, cov_kind)
ReadCov ==
    /\ cpc = "stored"
    /\ decoded' = read_cov(container, cov_kind)
    /\ cpc' = "decoded"
    /\ UNCHANGED <<cov, block, container, cov_kind, fileVars, estVars, whiteVars>>

NextRead == ReadCov

SpecRead == InitRead /\ [][NextRead]_vars

---------------------------------------------------------------------------
(* Covariance.load, Covariance.save, write_cov_file *)

\* the files found on disk at the start
FileContainers ==
    {<<>>} \cup
    {<<StoredBlock(k, d, NamesAB, pl)>> :
        k \in {Some(1), Some(3)}, d \in {None, Some(2)},
        pl \in {"none", "diag", "full"}}

\* the records handed to write_cov_file
FileDiagInputs ==
    {FieldRecord(3, Some(<< <<"A">> >>), 1, b, e[1], e[2]) :
        b \in BadsOptions,
        e \in {<<None, None>>, <<Some(<<1>>), Some(<< <<1>> >>)>>}}
FileFullInputs ==
    {FullRecord(1, 1, Some(<< <<"B">> >>), -1, v) : v \in Vectors(1)}

\* start_file: the file is created empty and its handle is open
start_file == FileOf(<<>>)

os_remove_Skipped(d) == d

\* os.remove(fname)
os_remove(d) == NoFile

\* what "raise '%s', inst" raises: a string exception where the interpreter
\* still has them, a TypeError where it does not
RaiseStatement == {"%s", "TypeError"}

\* write_cov_file(fname, c); the call of write_cov that emits entry failAt
\* raises (failAt = 0: none does)
write_cov_file(c, op) ==
    LET ents == write_cov(c)
    IN \E failAt \in 0..Len(ents) :
         IF failAt > 0
         THEN \* except Exception as inst
              /\ disk' = os_remove([start_file EXCEPT
                                      !.partial = SubSeq(ents, 1, failAt - 1)])
              /\ \E e \in RaiseStatement :
                   call' = [op |-> op, err |-> e, created |-> TRUE,
                            written |-> failAt - 1]
              /\ fid' = "open"
         ELSE \* end_file(fid)
              /\ disk' = [start_file EXCEPT !.blocks = <<ents>>]
              /\ call' = [op |-> op, err |-> "", created |-> TRUE,
                          written |-> Len(ents)]
              /\ fid' = "closed"

WriteCovFile ==
    /\ \/ \E c \in FileDiagInputs : write_cov_file(c, "write_cov_file")
       \/ \E c \in FileFullInputs : write_cov_file(c, "write_cov_file")
    /\ UNCHANGED <<self, codecVars, estVars, whiteVars>>

\* Covariance.save
Save ==
    /\ IF IsNone(self._cov)
       THEN /\ call' = [op |-> "save", err |-> "AttributeError",
                        created |-> FALSE, written |-> 0]
            /\ fid' = "none"
            /\ UNCHANGED disk
       ELSE write_cov_file(Get(self._cov), "save")
    /\ UNCHANGED <<self, codecVars, estVars, whiteVars>>

UnknownKind == "Unknown type of covariance. Choose between full, sparse or diagonal."

\* Covariance.load
Load ==
    /\ IF self.kind \notin KindNames
       THEN /\ call' = [op |-> "load", err |-> UnknownKind,
                        created |-> FALSE, written |-> 0]
            /\ fid' = "none"
            /\ UNCHANGED self
       ELSE IF ~disk.exists
       THEN \* fiff_open cannot open the file
            /\ call' = [op |-> "load", err |-> "IOError",
                        created |-> FALSE, written |-> 0]
            /\ fid' = "none"
            /\ UNCHANGED self
       ELSE LET r == read_cov(disk.blocks, kind_to_id(self.kind))
            IN /\ call' = [op |-> "load", err |-> r.err,
                           created |-> FALSE, written |-> 0]
               /\ IF r.err # ""
                  THEN fid' = "open" /\ UNCHANGED self
                  ELSE fid' = "closed" /\ self' = [self EXCEPT !._cov = r.cov]
    /\ UNCHANGED <<disk, codecVars, estVars, whiteVars>>

InitFile ==
    /\ cov = NoRecord
    /\ block = <<>>
    /\ container = <<>>
    /\ cov_kind = 0
    /\ decoded = Raised("")
    /\ cpc = "file"
    /\ disk \in {NoFile} \cup {FileOf(c) : c \in FileContainers}
    /\ self \in [kind : KindNames \cup {"bogus"}, _cov : {None}]
    /\ fid = "none"
    /\ call = NoCall
    /\ raw = NoRaw /\ ekind = "full" /\ picks = <<>> /\ est = IdleEst
    /\ OtherIdle

NextFile == Load \/ Save \/ WriteCovFile

SpecFile == InitFile /\ [][NextFile]_vars

---------------------------------------------------------------------------
(* Covariance.estimate_from_raw *)

Runs == {1, 2}
EstChannels == {1, 2}
SampleVals == {-1, 2}
SFreqs == {1, 2}
FirstSamps == {0, 2}

\* the raw source: sample t of the recording is a value per channel
\* raw[picks, first:last] : a channels x samples block for the half-open
\* range of sample indices
RawRead(r, pk, first, last) ==
    [c \in 1..Len(pk) |->
        [t \in 1..(last - first) |-> r.samples[first - r.first_samp + t][pk[c]]]]

RECURSIVE SumTo(_, _)
SumTo(f, n) == IF n = 0 THEN 0 ELSE f[n] + SumTo(f, n - 1)

\* np.dot(data, data.T)
DotT(data, nch, ns) ==
    [i \in 1..nch |-> [j \in 1..nch |->
        SumTo([t \in 1..ns |-> data[i][t] * data[j][t]], ns)]]

\* np.diag(np.sum(data ** 2, axis=1))
DiagSq(data, nch, ns) ==
    [i \in 1..nch |-> [j \in 1..nch |->
        IF i = j THEN SumTo([t \in 1..ns |-> data[i][t] * data[i][t]], ns)
        ELSE 0]]

MatAdd(a, b, n) == [i \in 1..n |-> [j \in 1..n |-> a[i][j] + b[i][j]]]
ZeroMat(n) == [i \in 1..n |-> [j \in 1..n |-> 0]]

\* int(quantum_sec * raw.info['sfreq']), quantum_sec given in half seconds
Quantum(halves, sfreq) == (halves * sfreq) \div 2

RangeNext_Overlapping(first, quantum) == first + 1

\* range(start, stop, quantum): the value after first
RangeNext(first, quantum) == first + quantum

\* if last >= stop: last = stop
ClipLast(last, stop) == IF last >= stop THEN stop ELSE last

Unsupported == "Unsupported covariance kind"
ZeroStep == "range() step argument must not be zero"
ZeroDivision == "ZeroDivisionError"

\* the locals at the head of the loop, before the first iteration; n_free
\* is the degrees of freedom recorded on the object (None: never set)
EstStart(halves) ==
    [pc |-> "start", halves |-> halves, start |-> 0, stop |-> 0,
     quantum |-> 0, first |-> 0, cov |-> ZeroMat(Len(picks)), n_samples |-> 0,
     reads |-> <<>>, err |-> "", data |-> None, n_free |-> None]

\* the runs are calls made one after the other
Turn(r) == \A q \in Runs : q < r => est[q].pc \in {"done", "raised"}

\* start, stop, quantum, cov = 0, n_samples = 0 and the call of range
EstimateSetup(r) ==
    /\ Turn(r)
    /\ est[r].pc = "start"
    /\ LET q == Quantum(est[r].halves, raw.sfreq)
       IN est' = [est EXCEPT ![r] =
             [@ EXCEPT !.start = raw.first_samp,
                       !.stop = raw.last_samp + 1,
                       !.quantum = q,
                       !.first = raw.first_samp,
                       !.pc = IF q = 0 THEN "raised" ELSE "loop",
                       !.err = IF q = 0 THEN ZeroStep ELSE ""]]
    /\ UNCHANGED <<raw, ekind, picks, codecVars, fileVars, whiteVars>>

\* one iteration of: for first in range(start, stop, quantum)
EstimateChunk(r) ==
    /\ Turn(r)
    /\ est[r].pc = "loop"
    /\ est[r].first < est[r].stop
    /\ LET first == est[r].first
           last == ClipLast(first + est[r].quantum, est[r].stop)
           data == RawRead(raw, picks, first, last)
           ns == last - first
           nch == Len(picks)
       IN est' = [est EXCEPT ![r] =
             IF ekind = "full"
             THEN [@ EXCEPT !.reads = Append(@, <<first, last>>),
                            !.cov = MatAdd(@, DotT(data, nch, ns), nch),
                            !.n_samples = @ + ns,
                            !.first = RangeNext(first, est[r].quantum)]
             ELSE IF ekind = "diagonal"
             THEN [@ EXCEPT !.reads = Append(@, <<first, last>>),
                            !.cov = MatAdd(@, DiagSq(data, nch, ns), nch),
                            !.n_samples = @ + ns,
                            !.first = RangeNext(first, est[r].quantum)]
             ELSE [@ EXCEPT !.reads = Append(@, <<first, last>>),
                            !.pc = "raised",
                            !.err = Unsupported]]
    /\ UNCHANGED <<raw, ekind, picks, codecVars, fileVars, whiteVars>>

\* self.data = cov / n_samples
EstimateFinish(r) ==
    /\ Turn(r)
    /\ est[r].pc = "loop"
    /\ est[r].first >= est[r].stop
    /\ est' = [est EXCEPT ![r] =
          IF est[r].n_samples = 0
          THEN [@ EXCEPT !.pc = "raised", !.err = ZeroDivision]
          ELSE [@ EXCEPT !.pc = "done",
                         !.data = Some([num |-> est[r].cov,
                                        den |-> est[r].n_samples])]]
    /\ UNCHANGED <<raw, ekind, picks, codecVars, fileVars, whiteVars>>

InitEst ==
    /\ cov = NoRecord
    /\ block = <<>>
    /\ container = <<>>
    /\ cov_kind = 0
    /\ decoded = Raised("")
    /\ cpc = "estimate"
    /\ disk = NoFile /\ self = NoSelf /\ fid = "none" /\ call = NoCall
    /\ \E n \in 0..MaxSamples, f \in FirstSamps, sf \in SFreqs :
         \E x \in [1..n -> [EstChannels -> SampleVals]] :
           raw = [first_samp |-> f, last_samp |-> f + n - 1, sfreq |-> sf,
                  samples |-> x]
    /\ ekind \in KindNames
    /\ picks \in {<<1, 2>>, <<2>>}
    /\ \E h \in [Runs -> 1..MaxHalves] : est = [r \in Runs |-> EstStart(h[r])]
    /\ OtherIdle

NextEst ==
    \E r \in Runs : EstimateSetup(r) \/ EstimateChunk(r) \/ EstimateFinish(r)

SpecEst == InitEst /\ [][NextEst]_vars

---------------------------------------------------------------------------
(* rank, _get_whitener *)

RankTolInv == 100000000    \* 1 / tol, tol = 1e-8

\* the singular values linalg.svd returns: non-negative, in descending order
SingularValues(n) ==
    {sv \in [1..n -> Vals] : \A i, j \in 1..n : i < j => sv[i] >= sv[j]}

\* np.sum(np.where(s > s[0]*tol, 1, 0)), s the singular values of A
rank(sv) == Cardinality({i \in 1..Len(sv) : sv[i] * RankTolInv > sv[1]})

\* A matrix: its shape and its entries.  An entry of a whitening operator
\* names the eigen-component of its row, the channel of its column and the
\* modality; an entry of np.zeros is Zero.
Zero == [comp |-> 0, ch |-> "", mod |-> "zero"]
Mat(r, c, a) == [nrows |-> r, ncols |-> c, a |-> a]
NoMat == Mat(0, 0, <<>>)
zeros(r, c) == Mat(r, c, [i \in 1..r |-> [j \in 1..c |-> Zero]])

\* np.c_[A, B]
c_(A, B) ==
    Mat(A.nrows, A.ncols + B.ncols,
        [i \in 1..A.nrows |-> [j \in 1..(A.ncols + B.ncols) |->
            IF j <= A.ncols THEN A.a[i][j] ELSE B.a[i][j - A.ncols]]])

\* np.r_[A, B]
r_(A, B) ==
    Mat(A.nrows + B.nrows, A.ncols,
        [i \in 1..(A.nrows + B.nrows) |-> [j \in 1..A.ncols |->
            IF i <= A.nrows THEN A.a[i][j] ELSE B.a[i - A.nrows][j]]])

\* _get_whitener(A, rnk, pca, ch_type): row k of W is sqrt(1/D[k]) times
\* eigenvector k of A, whose coordinate j belongs to row j of A; with pca
\* only the first rnk rows are kept
get_whitener(A, n, rnk, use_pca, ch_type) ==
    LET rows == IF ~use_pca THEN n ELSE IF rnk < n THEN rnk ELSE n
    IN Mat(rows, n,
           [k \in 1..rows |-> [j \in 1..n |->
               [comp |-> k, ch |-> A[j][j].row, mod |-> ch_type]]])

---------------------------------------------------------------------------
(* Covariance.whitener *)

WChannels == {"M1", "G1", "E1"}

\* the channel types pick_types reads from info['chs']
ChannelType(n) ==
    CASE n = "M1" -> "mag"
      [] n = "G1" -> "grad"
      [] n = "E1" -> "eeg"

Orders(S) ==
    UNION {{l \in [1..n -> S] : \A i, j \in 1..n : l[i] = l[j] => i = j}
           : n \in 0..Cardinality(S)}

Indices(n) == [i \in 1..n |-> i]
InSeq(x, l) == \E i \in 1..Len(l) : l[i] = x

\* pick_types(info, meg=..., eeg=..., exclude=bads): the indices, ascending,
\* of the channels of info of the wanted types that are not excluded
pick_types(inf, meg, eeg, exclude) ==
    LET Pick(k) ==
            LET t == ChannelType(inf.ch_names[k])
            IN /\ inf.ch_names[k] \notin exclude
               /\ \/ t = "eeg" /\ eeg
                  \/ t \in {"mag", "grad"} /\ meg = "all"
                  \/ t = meg
    IN SelectSeq(Indices(Len(inf.ch_names)), Pick)

\* [k for k, name in enumerate(self.ch_names)
\*  if name in info['ch_names'] and name not in bads]
C_idx ==
    LET Keep(k) == /\ InSeq(wself.ch_names[k], info.ch_names)
                   /\ wself.ch_names[k] \notin info.bads
    IN SelectSeq(Indices(Len(wself.ch_names)), Keep)

\* ch_names = [self.ch_names[k] for k in C_idx]
sel_ch_names == [i \in 1..Len(C_idx) |-> wself.ch_names[C_idx[i]]]

\* self.data[np.ix_(C_idx, C_idx)], then proj . C_noise . proj.T when the
\* projector has components
C_noise_sub ==
    [i \in 1..Len(C_idx) |-> [j \in 1..Len(C_idx) |->
        [row |-> sel_ch_names[i], col |-> sel_ch_names[j],
         zero |-> FALSE, loaded |-> FALSE, proj |-> info.ncomp > 0]]]

NamesOf(ind) == [i \in 1..Len(ind) |-> info.ch_names[ind[i]]]

names_meg == NamesOf(pick_types(info, "all", FALSE, info.bads))
names_grad == NamesOf(pick_types(info, "grad", FALSE, info.bads))
names_mag == NamesOf(pick_types(info, "mag", FALSE, info.bads))
names_eeg == NamesOf(pick_types(info, "none", TRUE, info.bads))

\* ch_names.index(name)
index(l, x) == CHOOSE i \in 1..Len(l) : l[i] = x /\ \A j \in 1..(i-1) : l[j] # x

\* [ch_names.index(name) for name in names]
C_ind(names) == [i \in 1..Len(names) |-> index(sel_ch_names, names[i])]

\* ch_names.index(name) raises ValueError for a name that is not in the list
IndexFails(names) == \E i \in 1..Len(names) : ~InSeq(names[i], sel_ch_names)

has_meg == Len(names_meg) > 0
has_eeg == Len(names_eeg) > 0

\* the working covariance
C_noise ==
    LET n == Len(C_idx)
    IN IF wself.kind = "diagonal"
       THEN \* np.diag(variances)
            [i \in 1..n |-> [j \in 1..n |->
                [C_noise_sub[i][j] EXCEPT !.zero = (i # j)]]]
       ELSE \* C_noise[ind, ind] += reg * np.mean(variances[ind]) per group,
            \* then the cross terms of MEG and EEG are set to zero
            [i \in 1..n |-> [j \in 1..n |->
                [C_noise_sub[i][j] EXCEPT
                    !.loaded = (i = j /\ \E g \in {names_grad, names_mag, names_eeg} :
                                   InSeq(sel_ch_names[i], g)),
                    !.zero = has_meg /\ has_eeg /\
                             \/ InSeq(sel_ch_names[i], names_meg)
                                  /\ InSeq(sel_ch_names[j], names_eeg)
                             \/ InSeq(sel_ch_names[i], names_eeg)
                                  /\ InSeq(sel_ch_names[j], names_meg)]]]

\* C_noise[ind][:, ind]
SubMatrix(C, ind) ==
    [i \in 1..Len(ind) |-> [j \in 1..Len(ind) |-> C[ind[i]][ind[j]]]]

WRaised(e) ==
    [status |-> "raised", err |-> e, W |-> NoMat, names |-> <<>>,
     pca |-> pca /\ wself.kind # "diagonal", rank_meg |-> None,
     rank_eeg |-> None]

WReturned(W, names, rank_meg, rank_eeg) ==
    [status |-> "returned", err |-> "", W |-> W, names |-> names,
     pca |-> pca /\ wself.kind # "diagonal", rank_meg |-> rank_meg,
     rank_eeg |-> rank_eeg]

ReturnedNames_EegFirst(nmeg, neeg) == neeg \o nmeg

\* names_meg + names_eeg
ReturnedNames(nmeg, neeg) == nmeg \o neeg

\* the call, given the singular values of the MEG and of the EEG part
whitener(sv_meg, sv_eeg) ==
    LET use_pca == pca /\ wself.kind # "diagonal"
        \* rank_meg and rank_eeg are bound only in the branch for the kinds
        \* that are not diagonal
        rank_meg == IF wself.kind # "diagonal" /\ has_meg
                    THEN Some(rank(sv_meg)) ELSE None
        rank_eeg == IF wself.kind # "diagonal" /\ has_eeg
                    THEN Some(rank(sv_eeg)) ELSE None
    IN IF wself.ndim # 2 THEN WRaised("IndexError")
       ELSE IF IndexFails(names_meg) \/ IndexFails(names_eeg)
       THEN WRaised("ValueError")
       ELSE IF has_meg /\ IsNone(rank_meg) THEN WRaised("UnboundLocalError")
       ELSE IF has_eeg /\ IsNone(rank_eeg) THEN WRaised("UnboundLocalError")
       ELSE IF ~has_meg /\ ~has_eeg THEN WRaised("UnboundLocalError")
       ELSE LET W_meg == get_whitener(SubMatrix(C_noise, C_ind(names_meg)),
                                      Len(names_meg), Get(rank_meg), use_pca,
                                      "MEG")
                W_eeg == get_whitener(SubMatrix(C_noise, C_ind(names_eeg)),
                                      Len(names_eeg), Get(rank_eeg), use_pca,
                                      "EEG")
                W == IF has_meg /\ ~has_eeg THEN W_meg
                     ELSE IF has_eeg /\ ~has_meg THEN W_eeg
                     ELSE r_(c_(W_meg, zeros(W_meg.nrows, W_eeg.ncols)),
                             c_(zeros(W_eeg.nrows, W_meg.ncols), W_eeg))
            IN WReturned(W, ReturnedNames(names_meg, names_eeg),
                         rank_meg, rank_eeg)

Whitener ==
    /\ wres.status = "idle"
    /\ \E sv_meg \in SingularValues(Len(names_meg)),
          sv_eeg \in SingularValues(Len(names_eeg)) :
         wres' = whitener(sv_meg, sv_eeg)
    /\ UNCHANGED <<wself, info, pca, codecVars, fileVars, estVars>>

InitWhite ==
    /\ cov = NoRecord
    /\ block = <<>>
    /\ container = <<>>
    /\ cov_kind = 0
    /\ decoded = Raised("")
    /\ cpc = "whitener"
    /\ disk = NoFile /\ self = NoSelf /\ fid = "none" /\ call = NoCall
    /\ raw = NoRaw /\ ekind = "full" /\ picks = <<>> /\ est = IdleEst
    /\ wself \in [kind : KindNames, ch_names : Orders(WChannels), ndim : {1, 2}]
    /\ info \in [ch_names : Orders(WChannels), bads : SUBSET WChannels,
                 ncomp : {0, 1}]
    /\ pca \in BOOLEAN
    /\ wres = NoWhitener

NextWhite == Whitener

SpecWhite == InitWhite /\ [][NextWhite]_vars

---------------------------------------------------------------------------
(* Claims about the codec *)

Distinct(l) == \A i, j \in 1..Len(l) : l[i] = l[j] => i = j

\* A covariance record that satisfies the invariants of the data model:
\* dim names, all different, n_free a positive count or -1 for unknown,
\* data a length-dim vector or a symmetric dim x dim matrix.
ValidCov(c) ==
    /\ c.dim >= 1
    /\ ~IsNone(c.names)
    /\ Len(Get(c.names)) = c.dim
    /\ Distinct(Get(c.names))
    /\ (c.nfree = -1 \/ c.nfree > 0)
    /\ Len(c.data) = c.dim
    /\ ~c.diag => \A i, j \in 1..c.dim : c.data[i][j] = c.data[j][i]

\* C1: for every valid covariance record M, read_cov of what write_cov wrote
\* from M returns a record with M's kind, dimension, names in the same order,
\* n_free, diagonal flag and data; in the full case the matrix rebuilt from
\* the packed lower triangle equals M's matrix entry for entry.
C1_RoundTrip ==
    (cpc = "decoded" /\ ValidCov(cov)) =>
        /\ decoded.err = ""
        /\ LET d == Get(decoded.cov)
           IN /\ d.kind = cov.kind
              /\ d.dim = cov.dim
              /\ d.names = cov.names
              /\ d.nfree = cov.nfree
              /\ d.diag = cov.diag
              /\ IF cov.diag
                 THEN d.data = cov.data
                 ELSE \A i, j \in 1..cov.dim : d.data[i][j] = cov.data[i][j]

\* a full 2 x 2 record with a non-zero diagonal and off-diagonal entry, two
\* names of different lengths and a positive n_free has been written and read
C1_Witness ==
    /\ cpc = "decoded"
    /\ ValidCov(cov)
    /\ ~cov.diag
    /\ cov.dim = 2
    /\ cov.data[1][1] # 0
    /\ cov.data[2][1] # 0
    /\ cov.nfree > 0
    /\ Len(Get(cov.names)[1]) # Len(Get(cov.names)[2])
    /\ decoded.err = ""

\* C10: write_cov emits the degrees-of-freedom entry iff n_free > 0, the
\* channel-name entry iff the name list is non-empty, the eigen entries iff
\* both eigenvalues and eigenvectors are present, the nested bad-channel
\* block iff there is at least one bad channel; kind, dimension and the data
\* payload are always emitted.
C10_ConditionalFields ==
    cpc = "encoded" =>
        /\ HasTag(block, "FIFF_MNE_COV_NFREE") <=> cov.nfree > 0
        /\ HasTag(block, "FIFF_MNE_ROW_NAMES")
             <=> (~IsNone(cov.names) /\ Len(Get(cov.names)) > 0)
        /\ (HasTag(block, "FIFF_MNE_COV_EIGENVALUES")
              \/ HasTag(block, "FIFF_MNE_COV_EIGENVECTORS"))
             <=> (~IsNone(cov.eig) /\ ~IsNone(cov.eigvec))
        /\ HasTag(block, "FIFF_MNE_COV_EIGENVALUES")
             <=> HasTag(block, "FIFF_MNE_COV_EIGENVECTORS")
        /\ HasBlock(block, "FIFFB_MNE_BAD_CHANNELS")
             <=> (~IsNone(cov.bads) /\ Len(Get(cov.bads)) > 0)
        /\ HasTag(block, "FIFF_MNE_COV_KIND")
        /\ HasTag(block, "FIFF_MNE_COV_DIM")
        /\ (HasTag(block, "FIFF_MNE_COV") \/ HasTag(block, "FIFF_MNE_COV_DIAG"))

FormatErrors == {DimNotFound, NamesMismatch, NoDataFound}
NotFoundErrors == {NoCovFound, DesiredNotFound}

\* the kind tag of the block, read off its entries
HasKind(blk, k) ==
    \E i \in 1..Len(blk) : blk[i].tag = "FIFF_MNE_COV_KIND" /\ blk[i].val = k

\* the number of names in the stored name string
NameCount(blk) ==
    LET s == Get(find_tag(blk, "FIFF_MNE_ROW_NAMES"))
    IN Cardinality({i \in 1..Len(s) : s[i] = ":"}) + 1

\* a block with a dimension, a data payload and, if it names its channels,
\* as many names as its dimension
WellFormed(blk) ==
    /\ HasTag(blk, "FIFF_MNE_COV_DIM")
    /\ (HasTag(blk, "FIFF_MNE_COV") \/ HasTag(blk, "FIFF_MNE_COV_DIAG"))
    /\ HasTag(blk, "FIFF_MNE_ROW_NAMES")
         => NameCount(blk) = Get(find_tag(blk, "FIFF_MNE_COV_DIM"))

SameOutcome(r1, r2) ==
    /\ r1.err = r2.err
    /\ r1.err = "" =>
         LET c1 == Get(r1.cov)
             c2 == Get(r2.cov)
         IN /\ c1.kind = c2.kind
            /\ c1.diag = c2.diag
            /\ c1.dim = c2.dim
            /\ c1.names = c2.names
            /\ c1.nfree = c2.nfree
            /\ Len(c1.data) = Len(c2.data)
            /\ c1.data = c2.data

FirstWithKind(covs, k) ==
    CHOOSE p \in 1..Len(covs) :
        HasKind(covs[p], k) /\ \A q \in 1..(p - 1) : ~HasKind(covs[q], k)

\* C6: the outcome of read_cov is that of the first block, in stored order,
\* whose kind tag is the requested kind: its record if it is well formed, a
\* format error if it is not; and a not-found error is raised exactly when no
\* block has the requested kind.
C6_DecodeSelection ==
    cpc = "decoded" =>
        /\ (decoded.err \in NotFoundErrors)
             <=> (\A p \in 1..Len(container) : ~HasKind(container[p], cov_kind))
        /\ (\E p \in 1..Len(container) : HasKind(container[p], cov_kind)) =>
             LET b == container[FirstWithKind(container, cov_kind)]
             IN /\ SameOutcome(decoded, read_cov(<<b>>, cov_kind))
                /\ WellFormed(b) =>
                     /\ decoded.err = ""
                     /\ Get(decoded.cov).kind = cov_kind
                     /\ Get(decoded.cov).dim = Get(find_tag(b, "FIFF_MNE_COV_DIM"))
                     /\ Get(decoded.cov).diag = ~HasTag(b, "FIFF_MNE_COV")
                /\ ~WellFormed(b) => decoded.err \in FormatErrors

\* the first block of the requested kind is malformed, a later block of that
\* kind is well formed, and read_cov has raised a format error
C6_Witness ==
    /\ cpc = "decoded"
    /\ Len(container) >= 2
    /\ \E p \in 1..Len(container) : HasKind(container[p], cov_kind)
    /\ LET f == FirstWithKind(container, cov_kind)
       IN /\ ~WellFormed(container[f])
          /\ \E q \in (f + 1)..Len(container) :
                HasKind(container[q], cov_kind) /\ WellFormed(container[q])
    /\ decoded.err \in FormatErrors

---------------------------------------------------------------------------
(* Claims about the file operations *)

\* C2: whenever write_cov_file (called directly or through Covariance.save)
\* ends by raising because a step of write_cov failed after start_file
\* created the file, the file does not exist when the error reaches the
\* caller.
C2_WriteFailureCleanup ==
    (call.op \in {"write_cov_file", "save"} /\ call.created /\ call.err # "")
        => ~disk.exists

\* save raised after write_cov had written at least three entries of the
\* block, and the file is gone
C2_Witness ==
    /\ call.op = "save"
    /\ call.created
    /\ call.err # ""
    /\ call.written >= 3
    /\ ~disk.exists

\* C7: the handle opened by Covariance.load and by write_cov_file is released
\* on every exit path: no call returns or raises with its handle open.
C7_HandleRelease ==
    call.op # "none" => fid # "open"

---------------------------------------------------------------------------
(* Claims about estimate_from_raw *)

Supported == ekind \in {"full", "diagonal"}
Finished(r) == est[r].pc \in {"done", "raised"}
TotalSamples == raw.last_samp - raw.first_samp + 1

\* cov / n_samples of two runs are the same matrix of fractions
SameData(d1, d2) ==
    \A i, j \in 1..Len(picks) :
        d1.num[i][j] * d2.den = d2.num[i][j] * d1.den

\* two runs over the same recording and channels, with steps of at least
\* one sample, end with the same data
C3_SameData ==
    (Supported /\ \A r \in Runs : est[r].pc = "done") =>
        SameData(Get(est[1].data), Get(est[2].data))

\* C3: two runs over the same recording and channel selection with chunk
\* sizes X and Y end with identical data and identical n_free, and n_free is
\* the total number of samples consumed.
C3_StreamingInvariance ==
    (Supported /\ \A r \in Runs : est[r].pc = "done") =>
        /\ SameData(Get(est[1].data), Get(est[2].data))
        /\ est[1].n_free = est[2].n_free
        /\ \A r \in Runs : est[r].n_free = Some(TotalSamples)

\* C8: with a kind that is neither full nor diagonal, estimate_from_raw
\* raises the unsupported-kind error before any chunk is read, for every
\* recording, an empty one included.
C8_UnsupportedKindBeforeRead ==
    \A r \in Runs :
        (~Supported /\ est[r].quantum >= 1) =>
            /\ Len(est[r].reads) = 0
            /\ Finished(r) => est[r].err = Unsupported

CeilDiv(n, q) == (n + q - 1) \div q

\* C9: for a supported kind and a step of at least one sample the chunks
\* read are consecutive, start at first_samp, have step samples each except
\* that the last one is clipped at last_samp, cover every sample exactly
\* once when the loop ends after ceil(N / step) reads, and the accumulated
\* sample count is N.
C9_ChunkTiling ==
    \A r \in Runs :
        (Supported /\ est[r].pc \in {"loop", "done"}) =>
            LET rd == est[r].reads
                q == est[r].quantum
            IN /\ q >= 1
               /\ \A i \in 1..Len(rd) :
                    /\ rd[i][1] = raw.first_samp + (i - 1) * q
                    /\ rd[i][1] < rd[i][2]
                    /\ rd[i][2] <= raw.last_samp + 1
                    /\ i < Len(rd) => rd[i][2] - rd[i][1] = q
                    /\ i < Len(rd) => rd[i + 1][1] = rd[i][2]
                    /\ rd[i][2] - rd[i][1] <= q
               /\ est[r].n_samples
                    = SumTo([i \in 1..Len(rd) |-> rd[i][2] - rd[i][1]], Len(rd))
               /\ est[r].pc = "done" =>
                    /\ Len(rd) = CeilDiv(TotalSamples, q)
                    /\ est[r].n_samples = TotalSamples
                    /\ \A t \in raw.first_samp..raw.last_samp :
                         Cardinality({i \in 1..Len(rd) :
                                        rd[i][1] <= t /\ t < rd[i][2]}) = 1
               /\ (est[r].pc = "loop" /\ est[r].first >= est[r].stop) =>
                    Len(rd) = CeilDiv(TotalSamples, q)

\* a run over three samples or more in steps of two has ended: its last
\* chunk was clipped
C9_Witness ==
    \E r \in Runs :
        /\ Supported
        /\ est[r].pc = "done"
        /\ est[r].quantum = 2
        /\ TotalSamples >= 3
        /\ TotalSamples % 2 = 1
        /\ Len(est[r].reads) >= 2

---------------------------------------------------------------------------
(* Claims about the whitener *)

IsMeg(n) == ChannelType(n) \in {"mag", "grad"}
IsEeg(n) == ChannelType(n) = "eeg"

\* C4: for a model of kind diagonal with at least one non-bad magnetic or
\* electric channel selected, whitener called with pca=True does not fail:
\* it sets pca to False, takes diag(variances) with rank equal to the channel
\* count, and returns an untruncated operator with the channel names.  (The
\* statement is taken in its most favourable case: data is a matrix and
\* every non-bad magnetic or electric channel of info is in the covariance.)
C4_DiagonalWhitening ==
    ( /\ wres.status # "idle"
      /\ wself.kind = "diagonal"
      /\ pca
      /\ wself.ndim = 2
      /\ has_meg \/ has_eeg
      /\ ~IndexFails(names_meg)
      /\ ~IndexFails(names_eeg) )
    => /\ wres.status = "returned"
       /\ ~wres.pca
       /\ wres.names = names_meg \o names_eeg
       /\ wres.W.ncols = Len(wres.names)
       /\ wres.W.nrows = Len(wres.names)

\* C5: the operator whitener returns has one column per returned name,
\* column j belonging to name j; the magnetic names precede the electric
\* ones; its rows are those of the magnetic operator followed by those of
\* the electric operator (rank_meg + rank_eeg rows under PCA, n_meg + n_eeg
\* without), one of the two alone when only one modality is present, and
\* every entry that pairs a magnetic row or column with an electric one is
\* zero.
C5_WhitenerCombination ==
    wres.status = "returned" =>
        LET W == wres.W
            names == wres.names
            n_meg == Cardinality({j \in 1..Len(names) : IsMeg(names[j])})
            n_eeg == Cardinality({j \in 1..Len(names) : IsEeg(names[j])})
            rows_meg == IF n_meg = 0 THEN 0
                        ELSE IF pca THEN Get(wres.rank_meg) ELSE n_meg
            rows_eeg == IF n_eeg = 0 THEN 0
                        ELSE IF pca THEN Get(wres.rank_eeg) ELSE n_eeg
        IN /\ W.ncols = Len(names)
           /\ Len(names) = n_meg + n_eeg
           /\ Len(W.a) = W.nrows
           /\ \A i \in 1..W.nrows : Len(W.a[i]) = W.ncols
           /\ \A i, j \in 1..Len(names) :
                (IsMeg(names[i]) /\ IsEeg(names[j])) => i < j
           /\ W.nrows = rows_meg + rows_eeg
           /\ \A i \in 1..W.nrows, j \in 1..W.ncols :
                IF (i <= rows_meg) = (j <= n_meg)
                THEN /\ W.a[i][j].mod = IF j <= n_meg THEN "MEG" ELSE "EEG"
                     /\ W.a[i][j].ch = names[j]
                ELSE W.a[i][j] = Zero

\* whitener returned with PCA for two magnetic channels of rank one and an
\* electric channel, the covariance listing the electric channel first
C5_Witness ==
    /\ wres.status = "returned"
    /\ pca
    /\ Len(names_meg) = 2
    /\ Len(names_eeg) = 1
    /\ wres.rank_meg = Some(1)
    /\ wres.rank_eeg = Some(1)
    /\ wself.ch_names[1] = "E1"
    /\ wres.W.nrows = 2
    /\ wres.W.ncols = 3

=============================================================================
